---------------------------- MODULE Spec2Model ----------------------------
(***************************************************************************)
(* Attendance and leave management: the store (tables, row-level security *)
(* policies and triggers of the migration) and the three pages that write *)
(* to it (Attendance, Dashboard, LeaveRequests).                          *)
(*                                                                         *)
(* Time is in seconds.  A date is a day number.  A nullable column is a   *)
(* sequence of length 0 (NULL) or 1.  total_hours is DECIMAL(4,2), kept   *)
(* as an integer number of hundredths of an hour.  The status of an        *)
(* attendance record is nullable too.                                       *)
(***************************************************************************)
EXTENDS Integers, Sequences, FiniteSets, TLC

VARIABLES now, attendance, leave_requests, attPage, dashPage, leavePage,
          inflight, lastOp, actions

vars == <<now, attendance, leave_requests, attPage, dashPage, leavePage,
          inflight, lastOp, actions>>

(***************************************************************************)
(* Bounds of the model.                                                    *)
(***************************************************************************)
MaxDay == 1
MaxInFlight == 2
MaxActions == 3
MaxLeaveActions == 3
MaxLeaveRows == 2
MaxStoreWrites == 3
MaxMonthWrites == 4

TickSteps == {30}

(***************************************************************************)
(* Program constants.                                                      *)
(***************************************************************************)
SecondsPerHour == 3600
SecondsPerDay == 86400
DaysPerMonth == 30
DecimalScale == 100
DecimalMax == 9999
OfficeStartHour == 9
GraceTimeMinutes == 15

NULL == <<>>
Some(v) == <<v>>
Val(x) == x[1]

(***************************************************************************)
(* profiles: one row per user, the role decides the access scope.          *)
(***************************************************************************)
Users == {"e1", "h1", "a1"}

profiles == [u \in Users |-> IF u = "e1" THEN "employee"
                             ELSE IF u = "h1" THEN "hr" ELSE "admin"]

\* the users with the Attendance page open, with the Dashboard open (its
\* quick actions are rendered for employees only), with the leave page open
AttendanceSessions == {"e1", "h1"}

DashboardSessions == {"e1"}

LeaveSessions == {"e1", "h1", "a1"}

IsHrOrAdmin(u) == profiles[u] \in {"hr", "admin"}

(***************************************************************************)
(* format(now, 'yyyy-MM-dd'), startOfMonth / endOfMonth.                   *)
(***************************************************************************)
DateOf(t) == t \div SecondsPerDay

MonthOf(d) == d \div DaysPerMonth

\* the time of day of a timestamp, in seconds after midnight
TimeOfDay(t) == t % SecondsPerDay

\* company_policies: office_start_time + grace_time_minutes, as a time of day
LateAfter == OfficeStartHour * SecondsPerHour + GraceTimeMinutes * (SecondsPerHour \div 60)

\* the days the user picks in the calendar: one of this month, one of the next
SelectableDates == {0, DaysPerMonth}

(***************************************************************************)
(* The attendance table and its triggers.                                  *)
(***************************************************************************)
Abs(x) == IF x >= 0 THEN x ELSE -x

\* a variant that cuts the digits after the second decimal instead of rounding
RoundToScale_Truncate(seconds) ==
    LET unit == SecondsPerHour \div DecimalScale
        mag == Abs(seconds) \div unit
    IN IF seconds >= 0 THEN mag ELSE -mag

\* numeric rounding to scale 2: to the nearest hundredth, ties away from zero
RoundToScale(seconds) ==
    LET unit == SecondsPerHour \div DecimalScale
        mag == (2 * Abs(seconds) + unit) \div (2 * unit)
    IN IF seconds >= 0 THEN mag ELSE -mag

\* a variant that counts the whole hundredths of an hour that have passed
HoursOf_Floor(new) ==
    ((Val(new.check_out) - Val(new.check_in)) * DecimalScale) \div SecondsPerHour

\* the value the trigger assigns to NEW.total_hours, before the column check
HoursOf(new) == RoundToScale(Val(new.check_out) - Val(new.check_in))

\* DECIMAL(4,2): a value of 100 hours or more raises numeric field overflow
NumericOverflow(new) ==
    /\ new.check_in # NULL
    /\ new.check_out # NULL
    /\ Abs(HoursOf(new)) > DecimalMax

calculate_total_hours(new) ==
    IF new.check_in # NULL /\ new.check_out # NULL
    THEN [new EXCEPT !.total_hours = Some(HoursOf(new))]
    ELSE new

\* a variant without the conflict target: every upsert inserts
ConflictRows_NoTarget(table, user_id, date) == {}

\* the rows the conflict target (user_id, date) of an upsert matches
ConflictRows(table, user_id, date) ==
    {i \in DOMAIN table : table[i].user_id = user_id /\ table[i].date = date}

\* a variant of the conflict action: DO NOTHING
UpsertMerge_KeepOld(old, check_in, status) == old

\* a variant that replaces the row: the columns not sent go back to null
UpsertMerge_Replace(old, check_in, status) ==
    [old EXCEPT !.check_in = Some(check_in), !.status = Some(status),
                !.check_out = NULL, !.total_hours = NULL]

\* ON CONFLICT (user_id, date) DO UPDATE SET the columns of the payload
UpsertMerge(old, check_in, status) ==
    [old EXCEPT !.check_in = Some(check_in), !.status = Some(status)]

AttendanceInsertPolicy(actor, user_id) == actor = user_id

\* a variant that lets hr and admin update every row
AttendanceUpdatePolicy_HrToo(actor, row) ==
    actor = row.user_id \/ profiles[actor] \in {"hr", "admin"}

\* "Users can update their own attendance"; no other UPDATE policy exists
AttendanceUpdatePolicy(actor, row) == actor = row.user_id

\* a variant of the select policy that shows every row to every user
AttendanceSelectPolicy_Public(actor, row) == TRUE

AttendanceSelectPolicy(actor, row) == actor = row.user_id \/ IsHrOrAdmin(actor)

\* supabase.from('attendance').upsert({user_id, date, check_in, status},
\*                                    {onConflict: 'user_id,date'})
AttendanceUpsert(table, actor, user_id, date, check_in, status) ==
    LET hit == ConflictRows(table, user_id, date)
        fresh == calculate_total_hours(
                   [id |-> Len(table) + 1, user_id |-> user_id, date |-> date,
                    check_in |-> Some(check_in), check_out |-> NULL,
                    status |-> Some(status), total_hours |-> NULL])
    IN IF ~AttendanceInsertPolicy(actor, user_id)
       THEN [ok |-> FALSE, table |-> table, conflict |-> FALSE]
       ELSE IF hit = {}
       THEN [ok |-> TRUE, table |-> Append(table, fresh), conflict |-> FALSE]
       ELSE LET i == CHOOSE j \in hit : TRUE
                new == UpsertMerge(table[i], check_in, status)
            IN IF ~AttendanceUpdatePolicy(actor, table[i]) \/ NumericOverflow(new)
               THEN [ok |-> FALSE, table |-> table, conflict |-> TRUE]
               ELSE [ok |-> TRUE,
                     table |-> [table EXCEPT ![i] = calculate_total_hours(new)],
                     conflict |-> TRUE]

\* supabase.from('attendance').update({check_out}).eq('id', id)
AttendanceUpdate(table, actor, id, check_out) ==
    LET hit == {i \in DOMAIN table :
                  table[i].id = id /\ AttendanceUpdatePolicy(actor, table[i])}
        New(i) == [table[i] EXCEPT !.check_out = Some(check_out)]
    IN IF \E i \in hit : NumericOverflow(New(i))
       THEN [ok |-> FALSE, table |-> table]
       ELSE [ok |-> TRUE,
             table |-> [i \in DOMAIN table |->
                          IF i \in hit THEN calculate_total_hours(New(i))
                          ELSE table[i]]]

\* .select('*').eq('user_id', u).eq('date', d): the rows the actor may see
AttendanceOn(table, actor, user_id, date) ==
    {i \in DOMAIN table :
        /\ AttendanceSelectPolicy(actor, table[i])
        /\ table[i].user_id = user_id
        /\ table[i].date = date}

\* the record of the date among the rows of a query, or NULL
RecordOrNull(table, rows) ==
    IF rows = {} THEN NULL ELSE Some(table[CHOOSE i \in rows : TRUE])

(***************************************************************************)
(* JavaScript numbers.  total_hours reaches the page as a JSON number, an  *)
(* IEEE 754 double.  Every value the page computes from hundredths of an   *)
(* hour below 2^17 is a multiple of 2^-59: a Number is a sign and a        *)
(* magnitude, the magnitude counting units of 2^-59 in four limbs of 24    *)
(* bits, the lowest first.                                                  *)
(***************************************************************************)
LimbBits == 24
FractionBits == 59
MantissaBits == 53

Limb == 2 ^ LimbBits

MagZero == <<0, 0, 0, 0>>

\* the limbs brought back into 0 .. Limb - 1, carries and borrows passed up
Carry(a) ==
    LET x2 == a[2] + (a[1] \div Limb)
        x3 == a[3] + (x2 \div Limb)
        x4 == a[4] + (x3 \div Limb)
    IN <<a[1] % Limb, x2 % Limb, x3 % Limb, x4>>

MagAdd(a, b) == Carry(<<a[1] + b[1], a[2] + b[2], a[3] + b[3], a[4] + b[4]>>)

\* a - b, for a >= b
MagSub(a, b) == Carry(<<a[1] - b[1], a[2] - b[2], a[3] - b[3], a[4] - b[4]>>)

MagLess(a, b) ==
    \/ a[4] < b[4]
    \/ a[4] = b[4] /\ a[3] < b[3]
    \/ a[4] = b[4] /\ a[3] = b[3] /\ a[2] < b[2]
    \/ a[4] = b[4] /\ a[3] = b[3] /\ a[2] = b[2] /\ a[1] < b[1]

\* a * k, for a small k
MagMulSmall(a, k) == Carry(<<a[1] * k, a[2] * k, a[3] * k, a[4] * k>>)

\* quotient and remainder of a by a small p
MagDivSmall(a, p) ==
    LET t3 == (a[4] % p) * Limb + a[3]
        t2 == (t3 % p) * Limb + a[2]
        t1 == (t2 % p) * Limb + a[1]
    IN [q |-> <<t1 \div p, t2 \div p, t3 \div p, a[4] \div p>>, r |-> t1 % p]

\* the number of binary digits of a limb, and of a magnitude
PowersOfTwo == [k \in 0 .. LimbBits |-> 2 ^ k]

LimbLength(x) == Cardinality({k \in 0 .. (LimbBits - 1) : PowersOfTwo[k] <= x})

BitLength(a) ==
    IF a[4] > 0 THEN 3 * LimbBits + LimbLength(a[4])
    ELSE IF a[3] > 0 THEN 2 * LimbBits + LimbLength(a[3])
    ELSE IF a[2] > 0 THEN LimbBits + LimbLength(a[2])
    ELSE LimbLength(a[1])

\* round to nearest, ties to even, of the value q + r / p to 53 significant
\* binary digits (q of at least 53 digits when r > 0)
RoundToDouble(q, r, p) ==
    LET d == BitLength(q) - MantissaBits
    IN IF d <= 0
       THEN IF 2 * r > p \/ (2 * r = p /\ q[1] % 2 = 1)
            THEN MagAdd(q, <<1, 0, 0, 0>>)
            ELSE q
       ELSE LET low == q[1] % (2 ^ d)
                half == 2 ^ (d - 1)
                odd == (q[1] \div (2 ^ d)) % 2 = 1
                up == low > half \/ (low = half /\ (r > 0 \/ odd))
            IN Carry(<<q[1] - low + (IF up THEN 2 ^ d ELSE 0), q[2], q[3], q[4]>>)

NumberZero == [neg |-> FALSE, mag |-> MagZero]

\* JSON.parse of the DECIMAL(4,2) value of h hundredths: the nearest double
NumberOfDecimal(h) ==
    LET scaled == Carry(<<0, 0, Abs(h) * (2 ^ (FractionBits - 2 * LimbBits)), 0>>)
        d == MagDivSmall(scaled, DecimalScale)
    IN [neg |-> h < 0, mag |-> RoundToDouble(d.q, d.r, DecimalScale)]

\* x + y of two doubles
NumberAdd(x, y) ==
    IF x.neg = y.neg
    THEN [neg |-> x.neg, mag |-> RoundToDouble(MagAdd(x.mag, y.mag), 0, 1)]
    ELSE IF x.mag = y.mag THEN NumberZero
    ELSE IF MagLess(x.mag, y.mag)
    THEN [neg |-> y.neg, mag |-> RoundToDouble(MagSub(y.mag, x.mag), 0, 1)]
    ELSE [neg |-> x.neg, mag |-> RoundToDouble(MagSub(x.mag, y.mag), 0, 1)]

\* the tenths toFixed(1) prints for a magnitude: the nearest, the larger of
\* two equally near
TenthsOf(mag) ==
    LET a == MagAdd(MagMulSmall(mag, 10),
                    <<0, 0, 2 ^ (FractionBits - 1 - 2 * LimbBits), 0>>)
    IN (a[3] \div (2 ^ (FractionBits - 2 * LimbBits)))
          + a[4] * (2 ^ (3 * LimbBits - FractionBits))

\* x.toFixed(1), as a signed number of tenths
toFixed(x) == IF x.neg THEN -TenthsOf(x.mag) ELSE TenthsOf(x.mag)

\* (x / n).toFixed(1) for a count n > 0: the quotient is rounded to a double
\* first; a quotient below 2^-7 prints as 0.0
QuotientToFixed(x, n) ==
    LET d == MagDivSmall(x.mag, n)
        tenths == IF BitLength(d.q) < MantissaBits
                  THEN (IF d.r = 0 THEN TenthsOf(d.q) ELSE 0)
                  ELSE TenthsOf(RoundToDouble(d.q, d.r, n))
    IN IF x.neg THEN -tenths ELSE tenths

(***************************************************************************)
(* Page state.  todayAttendance is a copy of a row, or NULL.               *)
(***************************************************************************)
Truthy(x) == x # NULL

LocalCheckIn(today) == IF today = NULL THEN NULL ELSE Val(today).check_in

LocalCheckOut(today) == IF today = NULL THEN NULL ELSE Val(today).check_out

\* the records of the month of the selected date the actor may see
MonthRows(table, actor, user_id, selectedDate) ==
    {i \in DOMAIN table :
        /\ AttendanceSelectPolicy(actor, table[i])
        /\ table[i].user_id = user_id
        /\ MonthOf(table[i].date) = MonthOf(selectedDate)}

\* .order('date', {ascending: false})
RECURSIVE LatestDateFirst(_, _)
LatestDateFirst(table, rows) ==
    IF rows = {} THEN <<>>
    ELSE LET i == CHOOSE j \in rows :
                    \A k \in rows : table[k].date <= table[j].date
         IN <<table[i]>> \o LatestDateFirst(table, rows \ {i})

\* a variant that lets the first record decide for all
StatusCount_Leading(records, status) ==
    IF records # <<>> /\ records[1].status = Some(status)
    THEN Len(records) ELSE 0

\* records.filter(r => r.status === status).length
StatusCount(records, status) ==
    Cardinality({k \in DOMAIN records : records[k].status = Some(status)})

\* r.total_hours || 0
HoursOrZero(r) ==
    IF r.total_hours = NULL THEN NumberZero
    ELSE NumberOfDecimal(Val(r.total_hours))

\* records.reduce((sum, r) => sum + (r.total_hours || 0), 0)
RECURSIVE SumHours(_)
SumHours(records) ==
    IF records = <<>> THEN NumberZero
    ELSE NumberAdd(SumHours(SubSeq(records, 1, Len(records) - 1)),
                   HoursOrZero(records[Len(records)]))

MonthlyStats(records) ==
    [totalDays |-> Len(records),
     presentDays |-> StatusCount(records, "present"),
     lateDays |-> StatusCount(records, "late"),
     absentDays |-> StatusCount(records, "absent"),
     totalHours |-> SumHours(records)]

\* records.find(r => r.date === today) || null
FindDate(records, date) ==
    LET hit == {k \in DOMAIN records : records[k].date = date}
    IN IF hit = {} THEN NULL
       ELSE Some(records[CHOOSE k \in hit : \A j \in hit : k <= j])

\* the Total Hours and Average Hours/Day the page shows, in tenths
TotalHoursShown(stats) == toFixed(stats.totalHours)

\* a variant that divides by the number of records
AverageHoursShown_PerRecord(stats) ==
    IF stats.totalDays > 0
    THEN QuotientToFixed(stats.totalHours, stats.totalDays)
    ELSE 0

AverageHoursShown(stats) ==
    IF stats.presentDays > 0
    THEN QuotientToFixed(stats.totalHours, stats.presentDays)
    ELSE 0

\* monthlyStats is set together with attendanceRecords, from the same
\* records: the page state keeps the records, the stats are their function
AttInitial(t) ==
    [attendanceRecords |-> <<>>,
     todayAttendance |-> NULL,
     selectedDate |-> DateOf(t),
     loading |-> TRUE]

monthlyStats(page) == MonthlyStats(page.attendanceRecords)

DashInitial == [todayAttendance |-> NULL, loading |-> TRUE]

LeaveInitial ==
    [leaveRequests |-> <<>>, allLeaveRequests |-> <<>>, loading |-> TRUE]

\* a page whose first fetch has returned
Loaded(page) == [page EXCEPT !.loading = FALSE]

\* fetchAttendanceData and fetchLeaveRequests start with setLoading(true);
\* fetchDashboardData does not touch loading before it ends
Refetching(pages, req) ==
    [pages EXCEPT ![req.user].loading = TRUE]

FetchAtt(u, sel) == [kind |-> "fetchAtt", user |-> u, selectedDate |-> sel]

FetchDash(u, d) == [kind |-> "fetchDash", user |-> u, date |-> d]

Room == Cardinality(inflight) < MaxInFlight

\* a user action (a click, a selection, a page load) happens some time after
\* the one before it
UserAction ==
    /\ actions < MaxActions
    /\ actions' = actions + 1
    /\ \E d \in TickSteps : now' = now + d

\* Every page has loaded against the empty tables; a later load is a mount.
Init ==
    /\ now = 0
    /\ attendance = <<>>
    /\ leave_requests = <<>>
    /\ attPage = [u \in Users |-> Loaded(AttInitial(0))]
    /\ dashPage = [u \in Users |-> Loaded(DashInitial)]
    /\ leavePage = [u \in Users |-> Loaded(LeaveInitial)]
    /\ inflight = {}
    /\ lastOp = "init"
    /\ actions = 0

(***************************************************************************)
(* The clock.                                                              *)
(***************************************************************************)
NextDay ==
    /\ DateOf(now) < MaxDay
    /\ now' = (DateOf(now) + 1) * SecondsPerDay
    /\ UNCHANGED <<attendance, leave_requests, attPage, dashPage, leavePage,
                   inflight, lastOp, actions>>

(***************************************************************************)
(* Attendance page.                                                        *)
(***************************************************************************)
\* the Check In button is disabled, and the handler returns, on a check-in
AttCheckInBlocked(u) == Truthy(LocalCheckIn(attPage[u].todayAttendance))

\* the Check Out button is disabled without a check-in or with a check-out;
\* the handler returns without a record or with a check-out
AttCheckOutBlocked(u) ==
    \/ attPage[u].todayAttendance = NULL
    \/ ~Truthy(LocalCheckIn(attPage[u].todayAttendance))
    \/ Truthy(LocalCheckOut(attPage[u].todayAttendance))

AttMount(u) ==
    /\ Room
    /\ UserAction
    /\ attPage' = [attPage EXCEPT ![u] = AttInitial(now')]
    /\ inflight' = inflight \cup {FetchAtt(u, DateOf(now'))}
    /\ UNCHANGED lastOp
    /\ UNCHANGED <<attendance, leave_requests, dashPage, leavePage>>

AttSelectDate(u) ==
    /\ Room
    /\ UserAction
    /\ \E d \in SelectableDates :
          /\ d # attPage[u].selectedDate
          /\ attPage' = [attPage EXCEPT ![u].selectedDate = d,
                                        ![u].loading = TRUE]
          /\ inflight' = inflight \cup {FetchAtt(u, d)}
    /\ UNCHANGED lastOp
    /\ UNCHANGED <<attendance, leave_requests, dashPage, leavePage>>

AttFetchDone(req) ==
    /\ req.kind = "fetchAtt"
    /\ LET u == req.user
           records == LatestDateFirst(attendance,
                         MonthRows(attendance, u, u, req.selectedDate))
       IN attPage' = [attPage EXCEPT
                        ![u].attendanceRecords = records,
                        ![u].todayAttendance = FindDate(records, DateOf(now)),
                        ![u].loading = FALSE]
    /\ inflight' = inflight \ {req}
    /\ UNCHANGED lastOp
    /\ UNCHANGED <<actions, now, attendance, leave_requests, dashPage, leavePage>>

AttCheckIn(u) ==
    /\ Room
    /\ UserAction
    /\ IF AttCheckInBlocked(u)
       THEN /\ lastOp' = "checkInRejected"
            /\ UNCHANGED inflight
       ELSE /\ inflight' = inflight \cup
                  {[kind |-> "upsert", page |-> "att", user |-> u,
                    date |-> DateOf(now'), check_in |-> now',
                    selectedDate |-> attPage[u].selectedDate]}
            /\ UNCHANGED lastOp
    /\ UNCHANGED <<attendance, leave_requests, attPage, dashPage, leavePage>>

AttCheckOut(u) ==
    /\ Room
    /\ UserAction
    /\ IF AttCheckOutBlocked(u)
       THEN /\ lastOp' = "checkOutRejected"
            /\ UNCHANGED inflight
       ELSE /\ inflight' = inflight \cup
                  {[kind |-> "update", page |-> "att", user |-> u,
                    id |-> Val(attPage[u].todayAttendance).id,
                    check_out |-> now',
                    selectedDate |-> attPage[u].selectedDate]}
            /\ UNCHANGED lastOp
    /\ UNCHANGED <<attendance, leave_requests, attPage, dashPage, leavePage>>

(***************************************************************************)
(* Dashboard.  The quick actions are rendered for employees only.          *)
(***************************************************************************)
DashCheckInRendered(u) ==
    /\ ~dashPage[u].loading
    /\ profiles[u] = "employee"
    /\ ~Truthy(LocalCheckIn(dashPage[u].todayAttendance))

DashCheckOutRendered(u) ==
    /\ ~dashPage[u].loading
    /\ profiles[u] = "employee"
    /\ Truthy(LocalCheckIn(dashPage[u].todayAttendance))
    /\ ~Truthy(LocalCheckOut(dashPage[u].todayAttendance))

DashMount(u) ==
    /\ Room
    /\ UserAction
    /\ dashPage' = [dashPage EXCEPT ![u] = DashInitial]
    /\ inflight' = inflight \cup {FetchDash(u, DateOf(now'))}
    /\ UNCHANGED lastOp
    /\ UNCHANGED <<attendance, leave_requests, attPage, leavePage>>

DashFetchDone(req) ==
    /\ req.kind = "fetchDash"
    /\ LET u == req.user
           rows == AttendanceOn(attendance, u, u, req.date)
       IN dashPage' = [dashPage EXCEPT
                         ![u] = [todayAttendance |-> RecordOrNull(attendance, rows),
                                 loading |-> FALSE]]
    /\ inflight' = inflight \ {req}
    /\ UNCHANGED lastOp
    /\ UNCHANGED <<actions, now, attendance, leave_requests, attPage, leavePage>>

DashCheckIn(u) ==
    /\ Room
    /\ UserAction
    /\ DashCheckInRendered(u)
    /\ inflight' = inflight \cup
          {[kind |-> "upsert", page |-> "dash", user |-> u,
            date |-> DateOf(now'), check_in |-> now', selectedDate |-> 0]}
    /\ UNCHANGED lastOp
    /\ UNCHANGED <<attendance, leave_requests, attPage, dashPage, leavePage>>

DashCheckOut(u) ==
    /\ Room
    /\ UserAction
    /\ DashCheckOutRendered(u)
    /\ dashPage[u].todayAttendance # NULL
    /\ inflight' = inflight \cup
          {[kind |-> "update", page |-> "dash", user |-> u,
            id |-> Val(dashPage[u].todayAttendance).id,
            check_out |-> now', selectedDate |-> 0]}
    /\ UNCHANGED lastOp
    /\ UNCHANGED <<attendance, leave_requests, attPage, dashPage, leavePage>>

(***************************************************************************)
(* The store applies a write; on success the handler refetches its page.   *)
(***************************************************************************)
Refetch(req) ==
    IF req.page = "att" THEN FetchAtt(req.user, req.selectedDate)
    ELSE FetchDash(req.user, DateOf(now))

\* a variant that classifies the check-in against the company policy
CheckInStatus_ByPolicy(check_in) ==
    IF TimeOfDay(check_in) > LateAfter THEN "late" ELSE "present"

\* the status both handleCheckIn send with a check-in
CheckInStatus(check_in) == "present"

ApplyUpsert(req) ==
    /\ req.kind = "upsert"
    /\ LET r == AttendanceUpsert(attendance, req.user, req.user, req.date,
                                 req.check_in, CheckInStatus(req.check_in))
       IN /\ attendance' = r.table
          /\ inflight' = (inflight \ {req}) \cup
                            (IF r.ok THEN {Refetch(req)} ELSE {})
          /\ lastOp' = (IF ~r.ok THEN "upsertFailed"
                      ELSE IF r.conflict THEN "upsertConflict"
                      ELSE "upsertInsert")
          /\ attPage' = (IF r.ok /\ req.page = "att"
                        THEN Refetching(attPage, req) ELSE attPage)
    /\ UNCHANGED <<actions, now, leave_requests, dashPage, leavePage>>

ApplyUpdate(req) ==
    /\ req.kind = "update"
    /\ LET r == AttendanceUpdate(attendance, req.user, req.id, req.check_out)
       IN /\ attendance' = r.table
          /\ inflight' = (inflight \ {req}) \cup
                            (IF r.ok THEN {Refetch(req)} ELSE {})
          /\ lastOp' = (IF r.ok THEN "update" ELSE "updateFailed")
          /\ attPage' = (IF r.ok /\ req.page = "att"
                        THEN Refetching(attPage, req) ELSE attPage)
    /\ UNCHANGED <<actions, now, leave_requests, dashPage, leavePage>>

Next ==
    \/ NextDay
    \/ \E u \in AttendanceSessions : AttMount(u)
    \/ \E u \in AttendanceSessions : AttSelectDate(u)
    \/ \E u \in AttendanceSessions : AttCheckIn(u)
    \/ \E u \in AttendanceSessions : AttCheckOut(u)
    \/ \E u \in DashboardSessions : DashMount(u)
    \/ \E u \in DashboardSessions : DashCheckIn(u)
    \/ \E u \in DashboardSessions : DashCheckOut(u)
    \/ \E req \in inflight : AttFetchDone(req)
    \/ \E req \in inflight : DashFetchDone(req)
    \/ \E req \in inflight : ApplyUpsert(req)
    \/ \E req \in inflight : ApplyUpdate(req)

Spec == Init /\ [][Next]_vars

(***************************************************************************)
(* The same pages on a morning: the first click falls on the last second   *)
(* of the grace time, the later ones after it.                              *)
(***************************************************************************)
InitOffice ==
    /\ \E d \in TickSteps : now = LateAfter - d
    /\ attendance = <<>>
    /\ leave_requests = <<>>
    /\ attPage = [u \in Users |-> Loaded(AttInitial(now))]
    /\ dashPage = [u \in Users |-> Loaded(DashInitial)]
    /\ leavePage = [u \in Users |-> Loaded(LeaveInitial)]
    /\ inflight = {}
    /\ lastOp = "init"
    /\ actions = 0

SpecOffice == InitOffice /\ [][Next]_vars

(***************************************************************************)
(* The leave_requests table, its policies and its trigger.                 *)
(***************************************************************************)
\* variants of the trigger: the operands swapped, the + 1 left out
calculate_leave_days_Swapped(new) ==
    [new EXCEPT !.total_days = (new.start_date - new.end_date) + 1]

calculate_leave_days_Exclusive(new) ==
    [new EXCEPT !.total_days = new.end_date - new.start_date]

calculate_leave_days(new) ==
    [new EXCEPT !.total_days = (new.end_date - new.start_date) + 1]

\* INSERT: "Users can create their own leave requests", or the FOR ALL policy
LeaveInsertPolicy(actor, user_id) == actor = user_id \/ IsHrOrAdmin(actor)

\* a variant that lets every user update
LeaveUpdatePolicy_Anyone(actor, row) == TRUE

\* UPDATE: only "HR can view and manage leave requests" (FOR ALL)
LeaveUpdatePolicy(actor, row) == IsHrOrAdmin(actor)

LeaveSelectPolicy(actor, row) == actor = row.user_id \/ IsHrOrAdmin(actor)

\* supabase.from('leave_requests').insert({...})
LeaveInsert(table, actor, user_id, leave_type, start_date, end_date, reason, status) ==
    IF ~LeaveInsertPolicy(actor, user_id)
    THEN [ok |-> FALSE, table |-> table]
    ELSE [ok |-> TRUE,
          table |-> Append(table, calculate_leave_days(
                      [id |-> Len(table) + 1, user_id |-> user_id,
                       leave_type |-> leave_type, start_date |-> start_date,
                       end_date |-> end_date, reason |-> reason,
                       status |-> status, approved_by |-> NULL,
                       remarks |-> NULL, total_days |-> 0]))]

\* variants of the update: without the filter on id, and with a filter on the
\* stored status
LeaveUpdateRows_NoIdFilter(table, actor, id) ==
    {i \in DOMAIN table : LeaveUpdatePolicy(actor, table[i])}

LeaveUpdateRows_PendingOnly(table, actor, id) ==
    {i \in DOMAIN table :
        /\ table[i].id = id
        /\ table[i].status = "pending"
        /\ LeaveUpdatePolicy(actor, table[i])}

\* the rows an update({status, approved_by, remarks}).eq('id', id) changes
LeaveUpdateRows(table, actor, id) ==
    {i \in DOMAIN table : table[i].id = id /\ LeaveUpdatePolicy(actor, table[i])}

LeaveUpdate(table, actor, id, status, approved_by, remarks) ==
    [i \in DOMAIN table |->
        IF i \in LeaveUpdateRows(table, actor, id)
        THEN calculate_leave_days([table[i] EXCEPT !.status = status,
                                                   !.approved_by = Some(approved_by),
                                                   !.remarks = remarks])
        ELSE table[i]]

\* a query result ordered by created_at, newest first
RECURSIVE NewestFirst(_, _)
NewestFirst(table, rows) ==
    IF rows = {} THEN <<>>
    ELSE LET i == CHOOSE j \in rows : \A k \in rows : k <= j
         IN <<table[i]>> \o NewestFirst(table, rows \ {i})

LeaveRowsOf(table, actor, user_id) ==
    {i \in DOMAIN table :
        LeaveSelectPolicy(actor, table[i]) /\ table[i].user_id = user_id}

LeaveRowsAll(table, actor) ==
    {i \in DOMAIN table : LeaveSelectPolicy(actor, table[i])}

(***************************************************************************)
(* LeaveRequests page.                                                     *)
(***************************************************************************)
LeaveTypeInputs == {"", "sick"}

ReasonInputs == {"", "flu"}

\* '' or a day: today, or two days from today
DateInputs == {NULL, Some(0), Some(2)}

StatusInputs == {"approved", "rejected"}

RemarksInputs == {NULL, Some("no")}

FetchLeave(u) == [kind |-> "fetchLeave", user |-> u]

\* userStats and hrStats: the counts of a list of requests
LeaveStats(requests) ==
    [total |-> Len(requests),
     pending |-> Cardinality({k \in DOMAIN requests :
                                requests[k].status = "pending"}),
     approved |-> Cardinality({k \in DOMAIN requests :
                                 requests[k].status = "approved"}),
     rejected |-> Cardinality({k \in DOMAIN requests :
                                 requests[k].status = "rejected"})]

LeaveRowsRoom ==
    Len(leave_requests) + Cardinality({r \in inflight : r.kind = "leaveInsert"})
        < MaxLeaveRows

LeaveUserAction ==
    /\ actions < MaxLeaveActions
    /\ actions' = actions + 1

\* <input type="date" min=...>: the browser does not submit a form holding a
\* date below its min
StartDateBelowMin(startDate) ==
    startDate # NULL /\ Val(startDate) < DateOf(now)

\* a variant without the min attribute on the end date
EndDateBelowMin_NoMin(startDate, endDate) == FALSE

EndDateBelowMin(startDate, endDate) ==
    /\ endDate # NULL
    /\ Val(endDate) < (IF startDate # NULL THEN Val(startDate) ELSE DateOf(now))

\* a variant of the validation that does not look at the reason
MissingField_NoReason(leaveType, startDate, endDate, reason) ==
    leaveType = "" \/ startDate = NULL \/ endDate = NULL

\* the handler's own validation
MissingField(leaveType, startDate, endDate, reason) ==
    leaveType = "" \/ startDate = NULL \/ endDate = NULL \/ reason = ""

LeaveMount(u) ==
    /\ Room
    /\ LeaveUserAction
    /\ leavePage' = [leavePage EXCEPT ![u] = LeaveInitial]
    /\ inflight' = inflight \cup {FetchLeave(u)}
    /\ UNCHANGED <<now, attendance, leave_requests, attPage, dashPage, lastOp>>

\* the page of user u after fetchLeaveRequests has read the table
LeaveLoaded(page, table, u) ==
    LET own == NewestFirst(table, LeaveRowsOf(table, u, u))
        all == NewestFirst(table, LeaveRowsAll(table, u))
    IN IF profiles[u] = "employee"
       THEN [page EXCEPT !.leaveRequests = own]
       ELSE [page EXCEPT !.leaveRequests = own, !.allLeaveRequests = all]

LeaveFetchDone(req) ==
    /\ req.kind = "fetchLeave"
    /\ leavePage' = [leavePage EXCEPT
                       ![req.user] = Loaded(LeaveLoaded(leavePage[req.user],
                                                        leave_requests, req.user))]
    /\ inflight' = inflight \ {req}
    /\ UNCHANGED <<now, attendance, leave_requests, attPage, dashPage, lastOp,
                   actions>>

SubmitLeaveRequest(u) ==
    /\ Room
    /\ LeaveUserAction
    /\ \E leaveType \in LeaveTypeInputs, startDate \in DateInputs,
          endDate \in DateInputs, reason \in ReasonInputs :
          IF StartDateBelowMin(startDate)
          THEN lastOp' = "submitPastDate" /\ UNCHANGED inflight
          ELSE IF EndDateBelowMin(startDate, endDate)
          THEN lastOp' = "submitEndBeforeStart" /\ UNCHANGED inflight
          ELSE IF MissingField(leaveType, startDate, endDate, reason)
          THEN lastOp' = "submitMissingField" /\ UNCHANGED inflight
          ELSE /\ LeaveRowsRoom
               /\ inflight' = inflight \cup
                     {[kind |-> "leaveInsert", user |-> u,
                       leave_type |-> leaveType, start_date |-> Val(startDate),
                       end_date |-> Val(endDate), reason |-> reason]}
               /\ UNCHANGED lastOp
    /\ UNCHANGED <<now, attendance, leave_requests, attPage, dashPage, leavePage>>

\* the Approve and Reject buttons: for hr and admin, on the rows shown pending
ApproveRejectRendered(u, id) ==
    /\ profiles[u] # "employee"
    /\ \E k \in DOMAIN leavePage[u].allLeaveRequests :
          /\ leavePage[u].allLeaveRequests[k].id = id
          /\ leavePage[u].allLeaveRequests[k].status = "pending"

ApproveReject(u) ==
    /\ Room
    /\ LeaveUserAction
    /\ \E id \in DOMAIN leave_requests, status \in StatusInputs :
          /\ ApproveRejectRendered(u, id)
          /\ inflight' = inflight \cup
                {[kind |-> "leaveUpdate", user |-> u, id |-> id,
                  status |-> status, remarks |-> NULL]}
    /\ UNCHANGED <<now, attendance, leave_requests, attPage, dashPage, leavePage,
                   lastOp>>

\* An update sent with an employee's session: the page renders no button for
\* it, the policies of the table decide.
DirectLeaveUpdate(u) ==
    /\ Room
    /\ LeaveUserAction
    /\ profiles[u] = "employee"
    /\ \E id \in DOMAIN leave_requests, status \in StatusInputs,
          remarks \in RemarksInputs :
          inflight' = inflight \cup
                {[kind |-> "leaveUpdate", user |-> u, id |-> id,
                  status |-> status, remarks |-> remarks]}
    /\ UNCHANGED <<now, attendance, leave_requests, attPage, dashPage, leavePage,
                   lastOp>>

ApplyLeaveInsert(req) ==
    /\ req.kind = "leaveInsert"
    /\ LET r == LeaveInsert(leave_requests, req.user, req.user, req.leave_type,
                            req.start_date, req.end_date, req.reason, "pending")
       IN /\ leave_requests' = r.table
          /\ inflight' = (inflight \ {req}) \cup
                            (IF r.ok THEN {FetchLeave(req.user)} ELSE {})
          /\ lastOp' = (IF r.ok THEN "leaveInsert" ELSE "leaveInsertFailed")
          /\ leavePage' = (IF r.ok THEN Refetching(leavePage, req)
                          ELSE leavePage)
    /\ UNCHANGED <<now, attendance, attPage, dashPage, actions>>

ApplyLeaveUpdate(req) ==
    /\ req.kind = "leaveUpdate"
    /\ leave_requests' = LeaveUpdate(leave_requests, req.user, req.id,
                                     req.status, req.user, req.remarks)
    /\ inflight' = (inflight \ {req}) \cup {FetchLeave(req.user)}
    /\ lastOp' = (IF LeaveUpdateRows(leave_requests, req.user, req.id) = {}
                  THEN "leaveUpdateNoRows" ELSE "leaveUpdate")
    /\ leavePage' = Refetching(leavePage, req)
    /\ UNCHANGED <<now, attendance, attPage, dashPage, actions>>

NextLeave ==
    \/ \E u \in LeaveSessions : LeaveMount(u)
    \/ \E u \in LeaveSessions : SubmitLeaveRequest(u)
    \/ \E u \in LeaveSessions : ApproveReject(u)
    \/ \E u \in LeaveSessions : DirectLeaveUpdate(u)
    \/ \E req \in inflight : LeaveFetchDone(req)
    \/ \E req \in inflight : ApplyLeaveInsert(req)
    \/ \E req \in inflight : ApplyLeaveUpdate(req)

SpecLeave == Init /\ [][NextLeave]_vars

(***************************************************************************)
(* The approvers at work: an employee's request is stored, pending, and    *)
(* every page has loaded it.                                                *)
(***************************************************************************)
SubmittedRequests ==
    LeaveInsert(<<>>, "e1", "e1", "sick", 0, 2, "flu", "pending").table

InitApprovers ==
    /\ now = 0
    /\ attendance = <<>>
    /\ leave_requests = SubmittedRequests
    /\ attPage = [u \in Users |-> Loaded(AttInitial(0))]
    /\ dashPage = [u \in Users |-> Loaded(DashInitial)]
    /\ leavePage = [u \in Users |->
                      Loaded(LeaveLoaded(LeaveInitial, SubmittedRequests, u))]
    /\ inflight = {}
    /\ lastOp = "init"
    /\ actions = 0

SpecApprovers == InitApprovers /\ [][NextLeave]_vars

(***************************************************************************)
(* The store seen from any client: a signed-in user sends inserts and      *)
(* updates of its choice through the API; the policies and the triggers    *)
(* decide.  A payload or patch is a record of the columns it sets.         *)
(***************************************************************************)
\* the row with the columns of the payload replaced
WithColumns(row, payload) ==
    [c \in DOMAIN row |-> IF c \in DOMAIN payload THEN payload[c] ELSE row[c]]

\* the column defaults of a new attendance row
AttendanceDefaults(id, today) ==
    [id |-> id, user_id |-> "", date |-> today, check_in |-> NULL,
     check_out |-> NULL, status |-> Some("present"), total_hours |-> NULL]

\* INSERT INTO attendance: BEFORE INSERT trigger, insert policy,
\* UNIQUE(user_id, date), DECIMAL(4,2)
AttendanceInsertRow(table, actor, payload, today) ==
    LET new == calculate_total_hours(
                  WithColumns(AttendanceDefaults(Len(table) + 1, today), payload))
    IN IF \/ ~AttendanceInsertPolicy(actor, new.user_id)
          \/ ConflictRows(table, new.user_id, new.date) # {}
          \/ NumericOverflow(new)
       THEN [ok |-> FALSE, table |-> table]
       ELSE [ok |-> TRUE, table |-> Append(table, new)]

\* UPDATE attendance SET patch WHERE id = id: update policy, BEFORE UPDATE
\* trigger; a patch sets none of id, user_id, date
AttendanceUpdateRow(table, actor, id, patch) ==
    LET hit == {i \in DOMAIN table :
                  table[i].id = id /\ AttendanceUpdatePolicy(actor, table[i])}
        New(i) == WithColumns(table[i], patch)
    IN IF \E i \in hit : NumericOverflow(New(i))
       THEN [ok |-> FALSE, table |-> table]
       ELSE [ok |-> TRUE,
             table |-> [i \in DOMAIN table |->
                          IF i \in hit THEN calculate_total_hours(New(i))
                          ELSE table[i]]]

\* the column defaults of a new leave request
LeaveDefaults(id) ==
    [id |-> id, user_id |-> "", leave_type |-> "", start_date |-> 0,
     end_date |-> 0, reason |-> "", status |-> "pending",
     approved_by |-> NULL, remarks |-> NULL, total_days |-> 0]

LeaveInsertRow(table, actor, payload) ==
    LET new == calculate_leave_days(
                  WithColumns(LeaveDefaults(Len(table) + 1), payload))
    IN IF ~LeaveInsertPolicy(actor, new.user_id)
       THEN [ok |-> FALSE, table |-> table]
       ELSE [ok |-> TRUE, table |-> Append(table, new)]

LeaveUpdateRow(table, actor, id, patch) ==
    [i \in DOMAIN table |->
        IF table[i].id = id /\ LeaveUpdatePolicy(actor, table[i])
        THEN calculate_leave_days(WithColumns(table[i], patch))
        ELSE table[i]]

\* an unfiltered select on attendance: the rows the actor may see
AttendanceRowsAll(table, actor) ==
    {i \in DOMAIN table : AttendanceSelectPolicy(actor, table[i])}

StoreClients == {"e1", "h1"}

StoreDates == {0, 1}

MonthDates == {0, 1, 2}

\* 09:00 on the date
OfficeStartOn(date) == date * SecondsPerDay + OfficeStartHour * SecondsPerHour

\* shifts of 0.01, 0.13 and 8.42 hours, in seconds
ShiftInputs == {36, 468, 30312}

\* a total_hours and a total_days the client sends
ClientHoursInputs == {500}

ClientDaysInputs == {99}

\* the payloads of an attendance insert of client u
AttendancePayloads(u) ==
    UNION {
      {[user_id |-> v, date |-> d, check_in |-> Some(OfficeStartOn(d))],
       [user_id |-> u, date |-> d, check_in |-> Some(OfficeStartOn(d)),
        status |-> NULL]}
      \cup {[user_id |-> u, date |-> d, check_in |-> Some(OfficeStartOn(d)),
             total_hours |-> Some(h)] : h \in ClientHoursInputs}
      \cup {[user_id |-> u, date |-> d, check_in |-> Some(OfficeStartOn(d)),
             check_out |-> Some(OfficeStartOn(d) + len),
             total_hours |-> Some(h)] :
                len \in ShiftInputs, h \in ClientHoursInputs}
      : v \in StoreClients, d \in StoreDates}

\* the patches of an attendance update, by the date of the row
AttendancePatches ==
    [date \in StoreDates |->
        {[check_out |-> Some(OfficeStartOn(date) + len)] : len \in ShiftInputs}
        \cup {[total_hours |-> Some(h)] : h \in ClientHoursInputs}
        \cup {[status |-> Some("late")]}]

\* the records of whole shifts, as an import of a month writes them
ShiftPayloads(u) ==
    {[user_id |-> u, date |-> d, check_in |-> Some(OfficeStartOn(d)),
      check_out |-> Some(OfficeStartOn(d) + len)] :
        d \in MonthDates, len \in ShiftInputs}

StatusPatches == [date \in MonthDates |-> {[status |-> Some("late")]}]

LeavePayloads(u) ==
    UNION {
      {[user_id |-> v, leave_type |-> "sick", start_date |-> 0,
        end_date |-> 2, reason |-> "flu"]}
      \cup {[user_id |-> u, leave_type |-> "sick", start_date |-> 0,
             end_date |-> 0, reason |-> "flu", total_days |-> n] :
                n \in ClientDaysInputs}
      : v \in StoreClients}

LeavePatches ==
    {[status |-> "approved"]} \cup {[total_days |-> n] : n \in ClientDaysInputs}

StoreWrite(max) ==
    /\ actions < max
    /\ actions' = actions + 1
    /\ UNCHANGED <<now, attPage, dashPage, leavePage, inflight>>

StoreInsertAttendance(u, max, payloads) ==
    /\ StoreWrite(max)
    /\ \E payload \in payloads :
          LET r == AttendanceInsertRow(attendance, u, payload, DateOf(now))
          IN /\ attendance' = r.table
             /\ lastOp' = (IF r.ok THEN "storeInsert" ELSE "storeInsertFailed")
    /\ UNCHANGED leave_requests

StoreUpdateAttendance(u, max, patches) ==
    /\ StoreWrite(max)
    /\ \E i \in DOMAIN attendance :
          \E patch \in patches[attendance[i].date] :
             LET r == AttendanceUpdateRow(attendance, u, attendance[i].id, patch)
             IN /\ attendance' = r.table
                /\ lastOp' = (IF r.ok THEN "storeUpdate" ELSE "storeUpdateFailed")
    /\ UNCHANGED leave_requests

StoreInsertLeave(u, max) ==
    /\ StoreWrite(max)
    /\ \E payload \in LeavePayloads(u) :
          LET r == LeaveInsertRow(leave_requests, u, payload)
          IN /\ leave_requests' = r.table
             /\ lastOp' = (IF r.ok THEN "storeInsert" ELSE "storeInsertFailed")
    /\ UNCHANGED attendance

StoreUpdateLeave(u, max) ==
    /\ StoreWrite(max)
    /\ \E i \in DOMAIN leave_requests : \E patch \in LeavePatches :
          /\ leave_requests' = LeaveUpdateRow(leave_requests, u,
                                              leave_requests[i].id, patch)
          /\ lastOp' = "storeUpdate"
    /\ UNCHANGED attendance

NextStore ==
    \/ \E u \in StoreClients :
          StoreInsertAttendance(u, MaxStoreWrites, AttendancePayloads(u))
    \/ \E u \in StoreClients :
          StoreUpdateAttendance(u, MaxStoreWrites, AttendancePatches)
    \/ \E u \in StoreClients : StoreInsertLeave(u, MaxStoreWrites)
    \/ \E u \in StoreClients : StoreUpdateLeave(u, MaxStoreWrites)
    \/ \E u \in StoreClients : AttMount(u)
    \/ \E u \in StoreClients : LeaveMount(u)
    \/ \E req \in inflight : AttFetchDone(req)
    \/ \E req \in inflight : LeaveFetchDone(req)

SpecStore == Init /\ [][NextStore]_vars

(***************************************************************************)
(* A month of records: whole shifts are written for the days of the month, *)
(* requests are entered, and the pages load and count them.                 *)
(***************************************************************************)
MonthClients == {"h1"}

NextMonth ==
    \/ \E u \in MonthClients :
          StoreInsertAttendance(u, MaxMonthWrites, ShiftPayloads(u))
    \/ \E u \in MonthClients :
          StoreUpdateAttendance(u, MaxMonthWrites, StatusPatches)
    \/ \E u \in MonthClients : StoreInsertLeave(u, MaxMonthWrites)
    \/ \E u \in MonthClients : StoreUpdateLeave(u, MaxMonthWrites)
    \/ \E u \in MonthClients : AttMount(u)
    \/ \E u \in MonthClients : LeaveMount(u)
    \/ \E req \in inflight : AttFetchDone(req)
    \/ \E req \in inflight : LeaveFetchDone(req)

SpecMonth == Init /\ [][NextMonth]_vars

(***************************************************************************)
(* The store answers with an error (the network, a constraint).  A write   *)
(* handler throws on the error, logs it and shows a notification; a fetch  *)
(* of the Attendance or the LeaveRequests page does the same and ends in   *)
(* finally { setLoading(false) }; the Dashboard reads data and ignores the *)
(* error.                                                                   *)
(***************************************************************************)
WriteKinds == {"upsert", "update", "leaveInsert", "leaveUpdate"}

FailedOps ==
    {"upsertFailed", "updateFailed", "leaveInsertFailed", "leaveUpdateFailed"}

\* a variant of the catch block that starts the fetch of the page anyway
AfterRejected_Refetch(req) ==
    IF req.kind \in {"upsert", "update"} THEN {Refetch(req)}
    ELSE {[kind |-> "fetchLeave", user |-> req.user]}

\* the requests a handler issues from its catch block: none
AfterRejected(req) == {}

\* if (error) throw error, in the four handlers that write
Rejected(req, op) ==
    /\ inflight' = (inflight \ {req}) \cup AfterRejected(req)
    /\ lastOp' = op
    /\ UNCHANGED <<now, attendance, leave_requests, attPage, dashPage,
                   leavePage, actions>>

RejectUpsert(req) == req.kind = "upsert" /\ Rejected(req, "upsertFailed")

RejectUpdate(req) == req.kind = "update" /\ Rejected(req, "updateFailed")

RejectLeaveInsert(req) ==
    req.kind = "leaveInsert" /\ Rejected(req, "leaveInsertFailed")

RejectLeaveUpdate(req) ==
    req.kind = "leaveUpdate" /\ Rejected(req, "leaveUpdateFailed")

\* a variant with setLoading(false) at the end of the try block
AfterFetchError_NoFinally(page) == page

\* catch, then finally { setLoading(false) }: the lists stay as they were
AfterFetchError(page) == Loaded(page)

AttFetchFailed(req) ==
    /\ req.kind = "fetchAtt"
    /\ attPage' = [attPage EXCEPT ![req.user] = AfterFetchError(attPage[req.user])]
    /\ inflight' = inflight \ {req}
    /\ lastOp' = "attFetchFailed"
    /\ UNCHANGED <<now, attendance, leave_requests, dashPage, leavePage,
                   actions>>

\* the first query throws on its error; the error of the second query of an
\* hr or admin user is not read and its data, null, empties leaveRequests
LeaveFetchFailed(req) ==
    /\ req.kind = "fetchLeave"
    /\ LET u == req.user
           all == NewestFirst(leave_requests, LeaveRowsAll(leave_requests, u))
       IN \/ leavePage' = [leavePage EXCEPT ![u] = AfterFetchError(leavePage[u])]
          \/ /\ profiles[u] # "employee"
             /\ leavePage' = [leavePage EXCEPT
                                ![u] = Loaded([leavePage[u] EXCEPT
                                                 !.allLeaveRequests = all,
                                                 !.leaveRequests = <<>>])]
    /\ inflight' = inflight \ {req}
    /\ lastOp' = "leaveFetchFailed"
    /\ UNCHANGED <<now, attendance, leave_requests, attPage, dashPage, actions>>

\* no error is read: data is null, setTodayAttendance(null), and finally
DashFetchFailed(req) ==
    /\ req.kind = "fetchDash"
    /\ dashPage' = [dashPage EXCEPT
                      ![req.user] = [todayAttendance |-> NULL, loading |-> FALSE]]
    /\ inflight' = inflight \ {req}
    /\ lastOp' = "dashFetchFailed"
    /\ UNCHANGED <<now, attendance, leave_requests, attPage, leavePage, actions>>

(***************************************************************************)
(* An employee and an approver at work on a store that may fail: the       *)
(* employee's request is stored, pending, and loaded.                       *)
(***************************************************************************)
Employees == {"e1"}

Approvers == {"h1"}

NextFaults ==
    \/ \E u \in Employees : AttCheckIn(u)
    \/ \E u \in Employees : AttCheckOut(u)
    \/ \E u \in Employees : SubmitLeaveRequest(u)
    \/ \E u \in Approvers : ApproveReject(u)
    \/ \E req \in inflight : ApplyUpsert(req)
    \/ \E req \in inflight : ApplyUpdate(req)
    \/ \E req \in inflight : ApplyLeaveInsert(req)
    \/ \E req \in inflight : ApplyLeaveUpdate(req)
    \/ \E req \in inflight : RejectUpsert(req)
    \/ \E req \in inflight : RejectUpdate(req)
    \/ \E req \in inflight : RejectLeaveInsert(req)
    \/ \E req \in inflight : RejectLeaveUpdate(req)
    \/ \E req \in inflight : AttFetchDone(req)
    \/ \E req \in inflight : LeaveFetchDone(req)
    \/ \E req \in inflight : AttFetchFailed(req)
    \/ \E req \in inflight : LeaveFetchFailed(req)

SpecFaults == InitApprovers /\ [][NextFaults]_vars

(***************************************************************************)
(* The fetches of the three pages, on a store that may fail and that       *)
(* answers every call in the end.                                           *)
(***************************************************************************)
FetchAnswered(req) ==
    \/ AttFetchDone(req)
    \/ LeaveFetchDone(req)
    \/ DashFetchDone(req)
    \/ AttFetchFailed(req)
    \/ LeaveFetchFailed(req)
    \/ DashFetchFailed(req)

NextLoading ==
    \/ \E u \in Employees : AttMount(u)
    \/ \E u \in Employees : AttSelectDate(u)
    \/ \E u \in Employees : AttCheckIn(u)
    \/ \E u \in Employees : DashMount(u)
    \/ \E u \in Employees \cup Approvers : LeaveMount(u)
    \/ \E req \in inflight : ApplyUpsert(req)
    \/ \E req \in inflight : RejectUpsert(req)
    \/ \E req \in inflight : FetchAnswered(req)

\* the store call of every request eventually returns
StoreAnswers ==
    WF_vars(\E req \in inflight :
               FetchAnswered(req) \/ ApplyUpsert(req) \/ RejectUpsert(req))

SpecLoading == InitApprovers /\ [][NextLoading]_vars /\ StoreAnswers

(***************************************************************************)
(* A working day of an employee: the first click falls on 09:05, the clock *)
(* may move on to the end of the shift, where the next click falls on      *)
(* 17:30.                                                                   *)
(***************************************************************************)
ShiftStart == OfficeStartHour * SecondsPerHour + 5 * (SecondsPerHour \div 60)

ShiftEnd == 17 * SecondsPerHour + 30 * (SecondsPerHour \div 60)

InitWorkday ==
    /\ \E d \in TickSteps : now = ShiftStart - d
    /\ attendance = <<>>
    /\ leave_requests = <<>>
    /\ attPage = [u \in Users |-> Loaded(AttInitial(now))]
    /\ dashPage = [u \in Users |-> Loaded(DashInitial)]
    /\ leavePage = [u \in Users |-> Loaded(LeaveInitial)]
    /\ inflight = {}
    /\ lastOp = "init"
    /\ actions = 0

\* the time passes until the next click falls on the end of the shift
ToShiftEnd ==
    /\ \E d \in TickSteps :
          /\ TimeOfDay(now) < ShiftEnd - d
          /\ now' = DateOf(now) * SecondsPerDay + ShiftEnd - d
    /\ UNCHANGED <<attendance, leave_requests, attPage, dashPage, leavePage,
                   inflight, lastOp, actions>>

NextWorkday ==
    \/ ToShiftEnd
    \/ \E u \in Employees : AttCheckIn(u)
    \/ \E u \in Employees : AttCheckOut(u)
    \/ \E u \in Employees : DashMount(u)
    \/ \E u \in Employees : DashCheckIn(u)
    \/ \E u \in Employees : DashCheckOut(u)
    \/ \E req \in inflight : AttFetchDone(req)
    \/ \E req \in inflight : DashFetchDone(req)
    \/ \E req \in inflight : ApplyUpsert(req)
    \/ \E req \in inflight : ApplyUpdate(req)

SpecWorkday == InitWorkday /\ [][NextWorkday]_vars

(***************************************************************************)
(* Properties.                                                             *)
(***************************************************************************)
BothSet(r) == r.check_in # NULL /\ r.check_out # NULL

\* the store holds a check-in of the user on the date
HasCheckIn(table, user_id, date) ==
    \E i \in DOMAIN table :
        /\ table[i].user_id = user_id
        /\ table[i].date = date
        /\ table[i].check_in # NULL

\* the store holds a check-out on the record
HasCheckOut(table, id) ==
    \E i \in DOMAIN table : table[i].id = id /\ table[i].check_out # NULL

\* the requests the store answers in this step
Answered == inflight \ inflight'

\* C1: a check-in for a (user, date) that already holds a check-in is rejected
\* and leaves the attendance table as it was.
C1_SecondCheckInRejected ==
    [][\A req \in Answered :
          (req.kind = "upsert" /\ HasCheckIn(attendance, req.user, req.date))
             => attendance' = attendance]_vars

\* C2: the attendance table never holds two records of one (user_id, date).
C2_OneRecordPerUserDate ==
    \A i, j \in DOMAIN attendance :
        (attendance[i].user_id = attendance[j].user_id
            /\ attendance[i].date = attendance[j].date) => i = j

\* an upsert has met the record of an earlier check-in
C2_Witness ==
    /\ lastOp = "upsertConflict"
    /\ \E i \in DOMAIN attendance : attendance[i].check_in # NULL

\* C3: once a leave request is approved or rejected, its status and its
\* approved_by never change.
C3_DecidedIsTerminal ==
    [][\A i \in DOMAIN leave_requests :
          leave_requests[i].status \in {"approved", "rejected"}
             => /\ leave_requests'[i].status = leave_requests[i].status
                /\ leave_requests'[i].approved_by = leave_requests[i].approved_by]_vars

\* the status, the approver or the remarks of request i change in this step
LeaveDecisionChanged(i) ==
    \/ leave_requests'[i].status # leave_requests[i].status
    \/ leave_requests'[i].approved_by # leave_requests[i].approved_by
    \/ leave_requests'[i].remarks # leave_requests[i].remarks

\* C4: the status, approved_by and remarks of a leave request change only in
\* answer to an update of an hr or admin user; no request of an employee
\* changes them.
C4_TransitionNeedsHrOrAdmin ==
    [][(\E i \in DOMAIN leave_requests : LeaveDecisionChanged(i))
          => /\ \E req \in Answered :
                   req.kind = "leaveUpdate" /\ IsHrOrAdmin(req.user)
             /\ \A req \in Answered : profiles[req.user] # "employee"]_vars

\* the store has answered an employee's update of a stored request, and the
\* request is as it was created
C4_Witness ==
    /\ lastOp = "leaveUpdateNoRows"
    /\ \E i \in DOMAIN leave_requests :
          /\ leave_requests[i].status = "pending"
          /\ leave_requests[i].approved_by = NULL

\* C5: a check-out on a date for which the store holds no check-in of the
\* user is rejected and leaves the attendance table as it was.
C5_CheckOutNeedsCheckIn ==
    [][\A req \in Answered :
          (req.kind = "update"
             /\ ~HasCheckIn(attendance, req.user, DateOf(req.check_out)))
             => attendance' = attendance]_vars

\* C6: a check-out on a record whose check_out is set leaves the attendance
\* table (check_out, total_hours) as it was.
C6_SecondCheckOutRejected ==
    [][\A req \in Answered :
          (req.kind = "update" /\ HasCheckOut(attendance, req.id))
             => attendance' = attendance]_vars

\* C7 as stated: with both timestamps set, total_hours is exactly
\* (check_out - check_in) / 3600.
C7_TotalHoursExact ==
    \A i \in DOMAIN attendance :
        BothSet(attendance[i]) =>
            /\ attendance[i].total_hours # NULL
            /\ Val(attendance[i].total_hours) * SecondsPerHour
                  = (Val(attendance[i].check_out) - Val(attendance[i].check_in))
                       * DecimalScale

\* the distance, in 1/360000 hour, between a stored total_hours and the
\* difference of the timestamps
HoursError(r) ==
    Abs(Val(r.total_hours) * SecondsPerHour
           - (Val(r.check_out) - Val(r.check_in)) * DecimalScale)

\* C7 as amended: with both timestamps set, total_hours is
\* (check_out - check_in) / 3600 rounded to two decimals, the nearest
\* hundredth of an hour, a tie going away from zero.
C7_TotalHoursRounded ==
    \A i \in DOMAIN attendance :
        BothSet(attendance[i]) =>
            /\ attendance[i].total_hours # NULL
            /\ 2 * HoursError(attendance[i]) <= SecondsPerHour
            /\ (2 * HoursError(attendance[i]) = SecondsPerHour =>
                  Abs(Val(attendance[i].total_hours)) * SecondsPerHour
                     > Abs(Val(attendance[i].check_out)
                              - Val(attendance[i].check_in)) * DecimalScale)

\* a record checked out a time after its check-in that is no whole number of
\* hundredths of an hour
C7_Witness ==
    \E i \in DOMAIN attendance :
        /\ BothSet(attendance[i])
        /\ attendance[i].total_hours # NULL
        /\ HoursError(attendance[i]) # 0

\* C8: a stored leave request with start_date <= end_date has total_days equal
\* to the number of days from start_date to end_date, both counted.
C8_TotalDaysInclusive ==
    \A i \in DOMAIN leave_requests :
        leave_requests[i].start_date <= leave_requests[i].end_date =>
            leave_requests[i].total_days
               = Cardinality(leave_requests[i].start_date
                                .. leave_requests[i].end_date)

\* a request of three days, inserted and then updated by an approval
C8_Witness ==
    \E i \in DOMAIN leave_requests :
        /\ leave_requests[i].end_date = leave_requests[i].start_date + 2
        /\ leave_requests[i].status = "approved"
        /\ leave_requests[i].total_days = 3

\* C9: every stored leave request has total_days >= 1.
C9_TotalDaysAtLeastOne ==
    \A i \in DOMAIN leave_requests : leave_requests[i].total_days >= 1

\* a stored request of a single day
C9_Witness ==
    \E i \in DOMAIN leave_requests :
        /\ leave_requests[i].start_date = leave_requests[i].end_date
        /\ leave_requests[i].total_days = 1

\* C10: no leave request with start_date after end_date is stored or sent to
\* the store.
C10_StartNotAfterEnd ==
    /\ \A i \in DOMAIN leave_requests :
          leave_requests[i].start_date <= leave_requests[i].end_date
    /\ \A req \in inflight :
          req.kind = "leaveInsert" => req.start_date <= req.end_date

\* a submission with the end date before the start date has been refused, and
\* the table is empty
C10_Witness ==
    /\ lastOp = "submitEndBeforeStart"
    /\ leave_requests = <<>>
    /\ \A req \in inflight : req.kind # "leaveInsert"

\* C11: an approval of a stored pending request, applied by the store, sets
\* its status to approved and its approved_by to the approver, and leaves the
\* other fields of the request, and every other request, as they were.
C11_ApproveFrame ==
    [][\A req \in Answered :
          (req.kind = "leaveUpdate" /\ req.status = "approved"
              /\ IsHrOrAdmin(req.user))
          => /\ DOMAIN leave_requests' = DOMAIN leave_requests
             /\ \A i \in DOMAIN leave_requests :
                   /\ (leave_requests[i].id = req.id
                          /\ leave_requests[i].status = "pending")
                      => leave_requests'[i]
                            = [leave_requests[i] EXCEPT
                                 !.status = "approved",
                                 !.approved_by = Some(req.user)]
                   /\ leave_requests[i].id # req.id
                      => leave_requests'[i] = leave_requests[i]]_vars

\* an approver has approved the request of another user, next to a request
\* that is still as it was created
C11_Witness ==
    /\ lastOp = "leaveUpdate"
    /\ \E i, j \in DOMAIN leave_requests :
          /\ i # j
          /\ leave_requests[i].status = "approved"
          /\ leave_requests[i].approved_by # NULL
          /\ leave_requests[i].approved_by # Some(leave_requests[i].user_id)
          /\ leave_requests[i].total_days = 3
          /\ leave_requests[j].status = "pending"
          /\ leave_requests[j].approved_by = NULL

\* C12: every approve or reject of an hr or admin user that reaches the store
\* is applied, whatever the stored status: the request then carries the
\* status and the approver of that update, so of two concurrent updates the
\* one applied last decides.
C12_LastWriteWins ==
    [][\A req \in Answered :
          (req.kind = "leaveUpdate" /\ IsHrOrAdmin(req.user)
              /\ \E i \in DOMAIN leave_requests : leave_requests[i].id = req.id)
          => /\ lastOp' = "leaveUpdate"
             /\ \A i \in DOMAIN leave_requests :
                   leave_requests[i].id = req.id
                      => /\ leave_requests'[i].status = req.status
                         /\ leave_requests'[i].approved_by = Some(req.user)]_vars

\* h1 and a1 have both decided the one request, each from a list that showed
\* it pending; both updates are applied, a1's last
C12_Witness ==
    /\ lastOp = "leaveUpdate"
    /\ actions = 2
    /\ Len(leave_requests) = 1
    /\ leave_requests[1].approved_by = Some("a1")
    /\ leave_requests[1].status = "rejected"
    /\ FetchLeave("h1") \in inflight
    /\ FetchLeave("a1") \in inflight
    /\ leavePage["h1"].allLeaveRequests # <<>>
    /\ leavePage["a1"].allLeaveRequests # <<>>

\* the records of a (user, date)
RecordsOf(table, user_id, date) ==
    {i \in DOMAIN table : table[i].user_id = user_id /\ table[i].date = date}

\* C13: every check-in upsert the store applies leaves exactly one record of
\* its (user, date), carrying the check_in of that upsert: of two upserts in
\* flight together, the one applied last decides check_in.
C13_UpsertsSerialised ==
    [][\A req \in Answered :
          (req.kind = "upsert" /\ lastOp' # "upsertFailed")
          => /\ Cardinality(RecordsOf(attendance', req.user, req.date)) = 1
             /\ \A i \in RecordsOf(attendance', req.user, req.date) :
                   attendance'[i].check_in = Some(req.check_in)]_vars

\* two check-ins of one user were in flight together and the store applied
\* the later click first: the one record carries the time of the first click
C13_Witness ==
    /\ lastOp = "upsertConflict"
    /\ Len(attendance) = 1
    /\ \E d \in TickSteps : attendance[1].check_in = Some(d)

\* C14: a check-in applied for a (user, date) that holds no check-in leaves
\* one record of the (user, date) with check_in the time of the click and
\* status present, at every time of day.
C14_CheckInSetsPresent ==
    [][\A req \in Answered :
          (req.kind = "upsert" /\ lastOp' # "upsertFailed"
              /\ ~HasCheckIn(attendance, req.user, req.date))
          => /\ RecordsOf(attendance', req.user, req.date) # {}
             /\ \A i \in RecordsOf(attendance', req.user, req.date) :
                   /\ attendance'[i].check_in = Some(req.check_in)
                   /\ attendance'[i].status = Some("present")]_vars

\* a first check-in after the grace time is stored, status present
C14_Witness ==
    /\ lastOp = "upsertInsert"
    /\ \E i \in DOMAIN attendance :
          /\ attendance[i].check_in # NULL
          /\ TimeOfDay(Val(attendance[i].check_in)) > LateAfter
          /\ attendance[i].status = Some("present")

\* C15: a record checked in after office_start_time + grace has status late,
\* and every user has, for every day that is over, a check-in or a record
\* with status absent.
C15_StatusByPolicy ==
    /\ \A i \in DOMAIN attendance :
          (attendance[i].check_in # NULL
              /\ TimeOfDay(Val(attendance[i].check_in)) > LateAfter)
          => attendance[i].status = Some("late")
    /\ \A u \in Users : \A d \in 0 .. (DateOf(now) - 1) :
          ~HasCheckIn(attendance, u, d)
          => \E i \in RecordsOf(attendance, u, d) :
                attendance[i].status = Some("absent")

\* C16: every stored total_hours is the value the trigger computes from the
\* check_in and check_out of its record (none while one of them is missing),
\* and every stored total_days the value it computes from start_date and
\* end_date, whatever the client has sent.
C16_DerivedNotFromClient ==
    /\ \A i \in DOMAIN attendance :
          attendance[i].total_hours
             = (IF BothSet(attendance[i]) THEN Some(HoursOf(attendance[i]))
                ELSE NULL)
    /\ \A i \in DOMAIN leave_requests :
          leave_requests[i].total_days
             = (leave_requests[i].end_date - leave_requests[i].start_date) + 1

\* C17: an unfiltered select of an employee returns the rows of that user
\* only, on attendance and on leave_requests; one of an hr or admin user
\* returns every row.
C17_VisibilityByRole ==
    \A u \in Users :
       IF profiles[u] = "employee"
       THEN /\ AttendanceRowsAll(attendance, u)
                  = {i \in DOMAIN attendance : attendance[i].user_id = u}
            /\ LeaveRowsAll(leave_requests, u)
                  = {i \in DOMAIN leave_requests : leave_requests[i].user_id = u}
       ELSE /\ AttendanceRowsAll(attendance, u) = DOMAIN attendance
            /\ LeaveRowsAll(leave_requests, u) = DOMAIN leave_requests

\* both tables hold rows of h1, attendance also a row of the employee e1
C17_Witness ==
    /\ \E i, j \in DOMAIN attendance :
          attendance[i].user_id = "e1" /\ attendance[j].user_id = "h1"
    /\ \E i \in DOMAIN leave_requests : leave_requests[i].user_id = "h1"
    /\ AttendanceRowsAll(attendance, "e1") # DOMAIN attendance
    /\ LeaveRowsAll(leave_requests, "e1") = {}
    /\ AttendanceRowsAll(attendance, "h1") = DOMAIN attendance

\* C18: the monthly stats of the Attendance page satisfy
\* presentDays + lateDays + absentDays = totalDays.
C18_StatusCountsSumToTotal ==
    \A u \in Users :
       monthlyStats(attPage[u]).presentDays + monthlyStats(attPage[u]).lateDays
             + monthlyStats(attPage[u]).absentDays
          = monthlyStats(attPage[u]).totalDays

\* the sum of the total_hours of the records, in hundredths, none counted 0
RECURSIVE HundredthsSum(_)
HundredthsSum(records) ==
    IF records = <<>> THEN 0
    ELSE HundredthsSum(Tail(records))
            + (IF Head(records).total_hours = NULL THEN 0
               ELSE Val(Head(records).total_hours))

\* C19 as stated: the Average Hours/Day of the page is exactly the sum of
\* total_hours of its records divided by presentDays, and 0 without a
\* present day.
C19_AverageExact ==
    \A u \in Users :
       LET stats == monthlyStats(attPage[u])
       IN IF stats.presentDays > 0
          THEN AverageHoursShown(stats) * 10 * stats.presentDays
                  = HundredthsSum(attPage[u].attendanceRecords)
          ELSE AverageHoursShown(stats) = 0

\* C19 as amended: the Average Hours/Day the page shows is that quotient
\* rounded to one decimal, at most 0.05 from it, and 0 without a present day.
C19_AverageToOneDecimal ==
    \A u \in Users :
       LET stats == monthlyStats(attPage[u])
       IN IF stats.presentDays > 0
          THEN Abs(AverageHoursShown(stats) * 10 * stats.presentDays
                      - HundredthsSum(attPage[u].attendanceRecords))
                  <= 5 * stats.presentDays
          ELSE AverageHoursShown(stats) = 0

\* a page shows 8.4 for a present record of 8.42 hours next to a record of
\* 0.01 hours that is not present
C19_Witness ==
    \E u \in Users :
       /\ monthlyStats(attPage[u]).presentDays = 1
       /\ monthlyStats(attPage[u]).totalDays = 2
       /\ HundredthsSum(attPage[u].attendanceRecords) = 843
       /\ AverageHoursShown(monthlyStats(attPage[u])) = 84

\* the orders of a collection
Orders(records) ==
    {[k \in DOMAIN records |-> records[p[k]]] :
        p \in Permutations(DOMAIN records)}

\* the distance of two numbers, in units of 2^-59
NumberDistance(x, y) == NumberAdd(x, [y EXCEPT !.neg = ~y.neg]).mag

\* C20 as stated: the monthly stats of every order of the records of a page,
\* and the counts of every order of its leave requests, are those of the page.
C20_OrderIndependent ==
    \A u \in Users :
       /\ \A r \in Orders(attPage[u].attendanceRecords) :
             MonthlyStats(r) = monthlyStats(attPage[u])
       /\ \A r \in Orders(leavePage[u].leaveRequests) :
             LeaveStats(r) = LeaveStats(leavePage[u].leaveRequests)
       /\ \A r \in Orders(leavePage[u].allLeaveRequests) :
             LeaveStats(r) = LeaveStats(leavePage[u].allLeaveRequests)

\* C20 as amended: the counts are those of the page in every order; the
\* totalHours of two orders differ by less than 0.01 hours, the rounding
\* error of the floating-point sum.
C20_OrderIndependentCounts ==
    \A u \in Users :
       /\ \A r \in Orders(attPage[u].attendanceRecords) :
             /\ [MonthlyStats(r) EXCEPT !.totalHours = NumberZero]
                   = [monthlyStats(attPage[u]) EXCEPT !.totalHours = NumberZero]
             /\ MagLess(NumberDistance(MonthlyStats(r).totalHours,
                                       monthlyStats(attPage[u]).totalHours),
                        NumberOfDecimal(1).mag)
       /\ \A r \in Orders(leavePage[u].leaveRequests) :
             LeaveStats(r) = LeaveStats(leavePage[u].leaveRequests)
       /\ \A r \in Orders(leavePage[u].allLeaveRequests) :
             LeaveStats(r) = LeaveStats(leavePage[u].allLeaveRequests)

\* a page holds three records whose hours add up differently in another order
C20_Witness ==
    \E u \in Users :
       /\ Len(attPage[u].attendanceRecords) = 3
       /\ \E r \in Orders(attPage[u].attendanceRecords) :
             MonthlyStats(r).totalHours # monthlyStats(attPage[u]).totalHours

\* the requests a step sends to the store
Issued == inflight' \ inflight

\* C21: no insert of a leave request with an empty leave type or reason is
\* sent, no upsert is sent by an Attendance page that holds a check-in for
\* today, no update by one that holds a check-out; a step that sends nothing
\* the store answers leaves both tables as they were.
C21_ValidationBeforeStore ==
    [][/\ \A req \in Issued :
             /\ req.kind = "leaveInsert" =>
                   req.leave_type # "" /\ req.reason # ""
             /\ (req.kind = "upsert" /\ req.page = "att") =>
                   ~Truthy(LocalCheckIn(attPage[req.user].todayAttendance))
             /\ (req.kind = "update" /\ req.page = "att") =>
                   ~Truthy(LocalCheckOut(attPage[req.user].todayAttendance))
       /\ Answered = {} =>
             attendance' = attendance /\ leave_requests' = leave_requests]_vars

\* the Attendance page has refused a second check-in: the record of the
\* first is in the store, nothing is in flight
C21_Witness ==
    /\ lastOp = "checkInRejected"
    /\ inflight = {}
    /\ Len(attendance) = 1
    /\ attendance[1].check_in # NULL
    /\ Len(leave_requests) = 1

\* C22: a user action sends at most one write and an answer of the store
\* sends none; when the store rejects a write, nothing is sent in its place
\* (no retry, no refetch) and the tables and the pages stay as they were.
C22_NoRetryOnRejection ==
    [][/\ Cardinality({req \in Issued : req.kind \in WriteKinds}) <= 1
       /\ \A req \in Issued :
             req.kind \in WriteKinds => actions' = actions + 1
       /\ \A req \in Answered :
             (req.kind \in WriteKinds /\ lastOp' \in FailedOps) =>
                /\ inflight' = inflight \ {req}
                /\ attendance' = attendance
                /\ leave_requests' = leave_requests
                /\ attPage' = attPage
                /\ dashPage' = dashPage
                /\ leavePage' = leavePage]_vars

\* the store has rejected an approval: the request is pending as before and
\* nothing is in flight
C22_Witness ==
    /\ lastOp = "leaveUpdateFailed"
    /\ inflight = {}
    /\ \A i \in DOMAIN leave_requests : leave_requests[i].status = "pending"
    /\ ~leavePage["h1"].loading

\* the (user_id, date) keys of a table
Keys(table) == {<<table[i].user_id, table[i].date>> : i \in DOMAIN table}

\* C23: in every step the keys of the attendance table only grow, a record
\* appears only in answer to a check-in, and a record that changes does so in
\* answer to a check-out, in check_out and total_hours only.
C23_GrowsAndCheckOutOnly ==
    [][/\ Keys(attendance) \subseteq Keys(attendance')
       /\ Len(attendance') >= Len(attendance)
       /\ Len(attendance') > Len(attendance) =>
             \E req \in Answered : req.kind = "upsert"
       /\ \A i \in DOMAIN attendance :
             attendance'[i] # attendance[i] =>
                /\ \E req \in Answered :
                      req.kind = "update" /\ req.id = attendance[i].id
                /\ attendance'[i].id = attendance[i].id
                /\ attendance'[i].user_id = attendance[i].user_id
                /\ attendance'[i].date = attendance[i].date
                /\ attendance'[i].check_in = attendance[i].check_in
                /\ attendance'[i].status = attendance[i].status]_vars

\* a record of the scenario: checked in at 09:05, checked out at 17:30 of the
\* same day
ShiftRecord(r) ==
    /\ BothSet(r)
    /\ Val(r.check_in) = r.date * SecondsPerDay + ShiftStart
    /\ Val(r.check_out) = r.date * SecondsPerDay + ShiftEnd

\* C24 as stated: a record checked in at 09:05 and out at 17:30 has
\* total_hours = 8.4167 (84167 ten-thousandths) and status present.
C24_ShiftHoursFourDecimals ==
    \A i \in DOMAIN attendance :
        ShiftRecord(attendance[i]) =>
            /\ attendance[i].total_hours # NULL
            /\ Val(attendance[i].total_hours) * DecimalScale = 84167
            /\ attendance[i].status = Some("present")

\* C24 as amended: that record has total_hours = 8.42, the value of the
\* DECIMAL(4,2) column, and status present.
C24_ShiftHoursTwoDecimals ==
    \A i \in DOMAIN attendance :
        ShiftRecord(attendance[i]) =>
            /\ attendance[i].total_hours = Some(842)
            /\ attendance[i].status = Some("present")

\* the record of the scenario is in the store
C24_Witness ==
    \E i \in DOMAIN attendance :
        ShiftRecord(attendance[i]) /\ attendance[i].total_hours # NULL

\* C25: a fetch of the Attendance page that completes while the store holds
\* a record of the user for today leaves that record in todayAttendance.
C25_TodayAttendanceTracksStore ==
    [][\A req \in Answered :
          req.kind = "fetchAtt" =>
             \A i \in DOMAIN attendance :
                (attendance[i].user_id = req.user
                    /\ attendance[i].date = DateOf(now))
                => attPage'[req.user].todayAttendance = Some(attendance[i])]_vars

\* C26: every attendance record with check_in and check_out set has
\* check_in <= check_out and total_hours >= 0.
C26_CheckInBeforeCheckOut ==
    \A i \in DOMAIN attendance :
        BothSet(attendance[i]) =>
            /\ Val(attendance[i].check_in) <= Val(attendance[i].check_out)
            /\ attendance[i].total_hours # NULL
            /\ Val(attendance[i].total_hours) >= 0

\* the Attendance page of the user waits for no answer of the store
AttSettled(u) ==
    \A req \in inflight :
        req.user = u =>
            /\ req.kind # "fetchAtt"
            /\ req.kind \in {"upsert", "update"} => req.page # "att"

\* C27: once every fetch of an Attendance page has completed, the records it
\* holds (and the monthly stats, which are computed from them) are of the
\* month of the selected date.
C27_RecordsOfSelectedMonth ==
    \A u \in Users :
        AttSettled(u) =>
            \A k \in DOMAIN attPage[u].attendanceRecords :
                MonthOf(attPage[u].attendanceRecords[k].date)
                   = MonthOf(attPage[u].selectedDate)

\* C28: in every state of the store, an insert or upsert of any user for
\* another user_id, and an update by any user of a record of another user,
\* sent through the pages or directly, leaves the attendance table as it is.
C28_OnlyOwnerWrites ==
    \A actor \in Users :
       /\ \A payload \in AttendancePayloads(actor) :
             payload.user_id # actor =>
                AttendanceInsertRow(attendance, actor, payload, DateOf(now)).table
                   = attendance
       /\ \A v \in Users \ {actor} :
             AttendanceUpsert(attendance, actor, v, DateOf(now), now,
                              "present").table = attendance
       /\ \A i \in DOMAIN attendance :
             attendance[i].user_id # actor =>
                /\ \A patch \in AttendancePatches[attendance[i].date] :
                      AttendanceUpdateRow(attendance, actor, attendance[i].id,
                                          patch).table = attendance
                /\ AttendanceUpdate(attendance, actor, attendance[i].id,
                                    now).table = attendance

\* the table holds a record of the employee and one of the hr user, one of
\* them checked out by its owner, and the store has refused an insert
C28_Witness ==
    /\ lastOp = "storeInsertFailed"
    /\ \E i, j \in DOMAIN attendance :
          /\ attendance[i].user_id = "e1"
          /\ attendance[j].user_id = "h1"
          /\ attendance[i].check_out # NULL

\* the columns of a record that no check-in and no check-out may change
SameKey(new, old) ==
    new.id = old.id /\ new.user_id = old.user_id /\ new.date = old.date

\* C29: an upsert that hits a record leaves its id, user_id, date and
\* check_out, and every other record, as they were; an update leaves the id,
\* user_id, date, check_in and status of the record with its id, and every
\* other record, as they were.
C29_WriteFrame ==
    [][\A req \in Answered :
          /\ (req.kind = "upsert"
                 /\ ConflictRows(attendance, req.user, req.date) # {}) =>
                /\ Len(attendance') = Len(attendance)
                /\ \A i \in DOMAIN attendance :
                      IF i \in ConflictRows(attendance, req.user, req.date)
                      THEN /\ SameKey(attendance'[i], attendance[i])
                           /\ attendance'[i].check_out = attendance[i].check_out
                      ELSE attendance'[i] = attendance[i]
          /\ req.kind = "update" =>
                /\ Len(attendance') = Len(attendance)
                /\ \A i \in DOMAIN attendance :
                      IF attendance[i].id = req.id
                      THEN /\ SameKey(attendance'[i], attendance[i])
                           /\ attendance'[i].check_in = attendance[i].check_in
                           /\ attendance'[i].status = attendance[i].status
                      ELSE attendance'[i] = attendance[i]]_vars

\* an upsert has hit a record that was checked out, and the check_out is
\* still there
C29_Witness ==
    /\ lastOp = "upsertConflict"
    /\ \E i \in DOMAIN attendance : BothSet(attendance[i])

\* no fetch of the kind is in flight for the user
NoFetch(u, kind) == \A req \in inflight : ~(req.user = u /\ req.kind = kind)

\* C30: a page whose loading flag is true gets it back to false, and a page
\* none of whose fetches is in flight has it false, whether the fetches
\* succeeded or failed.
C30_LoadingEnds ==
    \A u \in Employees \cup Approvers :
       /\ attPage[u].loading ~> ~attPage[u].loading
       /\ leavePage[u].loading ~> ~leavePage[u].loading
       /\ dashPage[u].loading ~> ~dashPage[u].loading
       /\ [](NoFetch(u, "fetchAtt") => ~attPage[u].loading)
       /\ [](NoFetch(u, "fetchLeave") => ~leavePage[u].loading)
       /\ [](NoFetch(u, "fetchDash") => ~dashPage[u].loading)

\* a fetch of the Attendance page has failed, nothing is in flight and the
\* page is not loading
C30_Witness ==
    /\ lastOp = "attFetchFailed"
    /\ inflight = {}
    /\ ~attPage["e1"].loading

=============================================================================
